---- MODULE Spec2Model ----
(***************************************************************************)
(* Job lifecycle and heartbeat supervision of airflow/jobs/base_job.py:    *)
(* BaseJob.run, BaseJob.heartbeat, BaseJob.kill and BaseJob.is_alive on    *)
(* one row of the "job" table.                                             *)
(*                                                                         *)
(* Processes: the owner (the process that constructed the job and calls    *)
(* run(), whose _execute() calls heartbeat()), one external process that   *)
(* holds the job's id and may call kill() or flip the stored state to a    *)
(* terminating state, and observers that evaluate is_alive().              *)
(*                                                                         *)
(* Storage semantics used for session.merge(self):                         *)
(*  - heartbeat(), first session (lines 215-218): the in-memory object is  *)
(*    refreshed from the row ("This will cause it to load from the db").   *)
(*  - heartbeat(), second session (lines 233-239) and run()'s finally      *)
(*    (lines 272-274): the attributes of the in-memory object are copied   *)
(*    onto the row and committed ("At this point, the DB has updated").    *)
(*  - kill() (lines 166-173) loads the row itself, changes end_date only,  *)
(*    and the commit updates that column only.                             *)
(* Time is a global integer clock in seconds.                              *)
(***************************************************************************)
EXTENDS Integers, FiniteSets, Sequences, TLC

\* ------------------------------------------------------------------ bounds
MaxTime == 3
MaxHeartRate == 2
MaxBeats == 2
\* operations (kill() calls, state changes) made by the external process
MaxExt == 1
\* seconds followed after the last heartbeat when is_alive() is evaluated over time
MaxElapsed == 130
\* rows in the job table that most_recent_job() queries
MaxJobs == 2
\* latest_heartbeat values of the rows of that table: 0..MaxStamp
MaxStamp == 1

\* ---------------------------------------------------------------- constants
\* A NULL column / Python None for a timestamp.
None == -1
\* is_alive(grace_multiplier=2.1), in tenths.
DefaultGrace == 21
\* Grace multipliers (tenths) an observer may pass.
Graces == {10, DefaultGrace, 30}

RUNNING == "running"
SUCCESS == "success"
FAILED == "failed"
SHUTDOWN == "shutdown"
RESTARTING == "restarting"
UNSET == "unset"

\* State.terminating_states (airflow.utils.state)
terminating_states == {SHUTDOWN, RESTARTING}
\* Terminal states of the job state machine
TerminalStates == {SUCCESS, FAILED, SHUTDOWN}

\* No row of this id in the job table.
NoRow == [state |-> "norow", end_date |-> None, latest_heartbeat |-> None]

Callers == {"owner", "ext"}

VARIABLES
    now,                \* timezone.utcnow()
    heartrate,          \* self.heartrate, fixed at construction
    db,                 \* the stored row of the job (NoRow before run())
    mem,                \* the owner's in-memory BaseJob object
    pc,                 \* the owner's position in run()/heartbeat()
    only_if_necessary,  \* argument of the heartbeat() call in progress / last made
    previous_heartbeat, \* local of heartbeat()
    wakeAt,             \* time at which sleep(sleep_for) returns
    beats,              \* number of heartbeat() calls made by _execute()
    beatResult,         \* how the last heartbeat() call ended
    failedAt,           \* where the heartbeat() call in progress / last made hit OperationalError
    failures,           \* Stats counter "<job>_heartbeat_failure"
    lhbAtCall,          \* mem.latest_heartbeat when the last heartbeat() call began
    failuresAtCall,     \* failures when the last heartbeat() call began
    exc,                \* what _execute() ended with
    runResult,          \* how run() ended
    endWrites,          \* number of commits that wrote the row's end_date
    kpc,                \* per caller: position in kill()
    kjobEnd,            \* per caller: job.end_date of the row object held in kill()'s session
    khook,              \* per caller: how on_kill() ended
    kout,               \* per caller: what the last kill() raised
    extOps,             \* number of operations the external process has started
    aliveResult,        \* last is_alive() evaluation: inputs and result
    table,              \* the job table as most_recent_job() sees it: id -> row
    mrType,             \* the class most_recent_job() was last called on
    mrResult,           \* what most_recent_job() last returned (an id, or 0 for None)
    ipc                 \* per job instance of the table: its position

vars == <<now, heartrate, db, mem, pc, only_if_necessary, previous_heartbeat, wakeAt,
          beats, beatResult, failedAt, failures, lhbAtCall, failuresAtCall, exc,
          runResult, endWrites, kpc, kjobEnd, khook, kout, extOps, aliveResult,
          table, mrType, mrResult, ipc>>

ownerVars == <<mem, pc, only_if_necessary, previous_heartbeat, wakeAt, beats, beatResult,
               failedAt, failures, lhbAtCall, failuresAtCall, exc, runResult>>
killVars == <<kpc, kjobEnd, khook, kout>>
tableVars == <<table, mrType, mrResult, ipc>>

\* The table variables while only the one job of run()/heartbeat()/kill() is followed.
NoTable ==
    /\ table = <<>>
    /\ mrType = "none"
    /\ mrResult = 0
    /\ ipc = <<>>

\* ------------------------------------------------------------ pure helpers

\* heartbeat(): self.heartrate - (utcnow() - self.latest_heartbeat).total_seconds()
seconds_remaining(hr, t, lhb) == IF lhb # None THEN hr - (t - lhb) ELSE 0

Max(a, b) == IF a >= b THEN a ELSE b

\* heartbeat(): sleep_for = max(0, seconds_remaining)
sleep_for_Unclamped(hr, t, lhb) == seconds_remaining(hr, t, lhb)
sleep_for(hr, t, lhb) == IF lhb # None THEN Max(0, seconds_remaining(hr, t, lhb)) ELSE 0

\* heartbeat(): "if seconds_remaining > 0 and only_if_necessary: return"
heartbeat_skips_Overdue(hr, t, lhb, oin) == seconds_remaining(hr, t, lhb) < 0 /\ oin
heartbeat_skips(hr, t, lhb, oin) == seconds_remaining(hr, t, lhb) > 0 /\ oin

\* is_alive(grace_multiplier): grace in tenths, so both sides are scaled by 10
is_alive_Inclusive(rec, hr, t, grace) ==
    /\ rec.state = RUNNING
    /\ 10 * (t - rec.latest_heartbeat) <= hr * grace
is_alive(rec, hr, t, grace) ==
    /\ rec.state = RUNNING
    /\ 10 * (t - rec.latest_heartbeat) < hr * grace

\* ------------------------------------------------------------------- Init
\* __init__: start_date = latest_heartbeat = utcnow(), state unset, nothing stored.
Init ==
    /\ now = 0
    /\ heartrate \in 1..MaxHeartRate
    /\ db = NoRow
    /\ mem = [state |-> UNSET, end_date |-> None, latest_heartbeat |-> 0]
    /\ pc = "init"
    /\ only_if_necessary = FALSE
    /\ previous_heartbeat = None
    /\ wakeAt = 0
    /\ beats = 0
    /\ beatResult = "none"
    /\ failedAt = "none"
    /\ failures = 0
    /\ lhbAtCall = None
    /\ failuresAtCall = 0
    /\ exc = "none"
    /\ runResult = "none"
    /\ endWrites = 0
    /\ kpc = [c \in Callers |-> "idle"]
    /\ kjobEnd = [c \in Callers |-> None]
    /\ khook = [c \in Callers |-> "none"]
    /\ kout = [c \in Callers |-> "none"]
    /\ extOps = 0
    /\ aliveResult = [called |-> FALSE, grace |-> DefaultGrace, result |-> FALSE]
    /\ NoTable

\* ------------------------------------------------------------------ clock
Tick ==
    /\ now < MaxTime
    /\ now' = now + 1
    /\ UNCHANGED <<heartrate, db, ownerVars, endWrites, killVars, extOps, aliveResult, tableVars>>

\* ------------------------------------------------------------------ run()
\* run() going on to _execute() without the add and commit of lines 256-257.
RunStart_NoCommit ==
    /\ pc = "init"
    /\ mem' = [mem EXCEPT !.state = RUNNING]
    /\ pc' = "exec"
    /\ UNCHANGED <<now, heartrate, db, only_if_necessary, previous_heartbeat, wakeAt, beats,
                   beatResult, failedAt, failures, lhbAtCall, failuresAtCall, exc,
                   runResult, endWrites, killVars, extOps, aliveResult, tableVars>>

\* run(), lines 254-258: state = RUNNING; session.add(self); commit; make_transient
RunStart ==
    /\ pc = "init"
    /\ mem' = [mem EXCEPT !.state = RUNNING]
    /\ db' = [state |-> RUNNING, end_date |-> mem.end_date,
              latest_heartbeat |-> mem.latest_heartbeat]
    /\ pc' = "exec"
    /\ UNCHANGED <<now, heartrate, only_if_necessary, previous_heartbeat, wakeAt, beats,
                   beatResult, failedAt, failures, lhbAtCall, failuresAtCall, exc,
                   runResult, endWrites, killVars, extOps, aliveResult, tableVars>>

\* The state run() assigns for each way _execute() can end (lines 261-269).
\* A BaseException other than SystemExit matches no except clause.
StateAfterExecute_KeepsKilled(e, cur) ==
    CASE e \in {"return", "SystemExit"} -> SUCCESS
      [] e = "Exception" -> FAILED
      [] OTHER -> cur
StateAfterExecute_NoFailure(e, cur) ==
    IF e \in {"return", "SystemExit"} THEN SUCCESS ELSE cur
StateAfterExecute(e, cur) ==
    CASE e = "return" -> SUCCESS
      [] e = "SystemExit" -> SUCCESS
      [] e = "Exception" -> FAILED
      [] e = "AirflowException" -> FAILED
      [] OTHER -> cur

ExecOutcomes == {"return", "SystemExit", "Exception", "KeyboardInterrupt"}

\* _execute() ends on its own (not through heartbeat()).
ExecEnd(e) ==
    /\ pc = "exec"
    /\ exc' = e
    /\ mem' = [mem EXCEPT !.state = StateAfterExecute(e, mem.state)]
    /\ pc' = "finalize"
    /\ UNCHANGED <<now, heartrate, db, only_if_necessary, previous_heartbeat, wakeAt, beats,
                   beatResult, failedAt, failures, lhbAtCall, failuresAtCall,
                   runResult, endWrites, killVars, extOps, aliveResult, tableVars>>

\* run(), finally (lines 271-274): end_date = utcnow(); merge(self); commit
Finalize ==
    /\ pc = "finalize"
    /\ mem' = [mem EXCEPT !.end_date = now]
    /\ db' = [state |-> mem.state, end_date |-> now,
              latest_heartbeat |-> mem.latest_heartbeat]
    /\ endWrites' = endWrites + 1
    /\ pc' = "exit"
    /\ UNCHANGED <<now, heartrate, only_if_necessary, previous_heartbeat, wakeAt, beats,
                   beatResult, failedAt, failures, lhbAtCall, failuresAtCall, exc,
                   runResult, killVars, extOps, aliveResult, tableVars>>

\* How run() leaves: "raise" in except Exception, an uncaught BaseException, or return ret.
RunLeaves_ReraiseExit(e) ==
    IF e = "return" THEN "returned" ELSE "raised"
RunLeaves(e) ==
    IF e \in {"return", "SystemExit"} THEN "returned" ELSE "raised"

\* run() leaves after the finally block (lines 269, 276-277).
RunExit ==
    /\ pc = "exit"
    /\ runResult' = RunLeaves(exc)
    /\ pc' = "done"
    /\ UNCHANGED <<now, heartrate, db, mem, only_if_necessary, previous_heartbeat, wakeAt,
                   beats, beatResult, failedAt, failures, lhbAtCall, failuresAtCall, exc,
                   endWrites, killVars, extOps, aliveResult, tableVars>>

\* -------------------------------------------------------------- heartbeat()
\* Line 244: Stats.incr("<job>_heartbeat_failure", 1, 1)
FailureCount_Twice(n) == n + 2
FailureCount(n) == n + 1

\* Line 247: self.latest_heartbeat = previous_heartbeat
RolledBack_NoRestore(m, prev) == m
RolledBack(m, prev) == [m EXCEPT !.latest_heartbeat = prev]

\* The except OperationalError handler (lines 243-247): count, log, and put
\* previous_heartbeat back; heartbeat() then returns normally.
\* m is the in-memory object at the moment the error is raised.
HeartbeatFailure(where, m) ==
    /\ failures' = FailureCount(failures)
    /\ mem' = RolledBack(m, previous_heartbeat)
    /\ failedAt' = where
    /\ beatResult' = "absorbed"
    /\ previous_heartbeat' = None
    /\ wakeAt' = 0
    /\ pc' = "exec"

\* _execute() calls heartbeat(only_if_necessary=oin): lines 205-212.
BeatCall(oin) ==
    /\ pc = "exec"
    /\ beats < MaxBeats
    /\ beats' = beats + 1
    /\ only_if_necessary' = oin
    /\ lhbAtCall' = mem.latest_heartbeat
    /\ failuresAtCall' = failures
    /\ failedAt' = "none"
    /\ IF heartbeat_skips(heartrate, now, mem.latest_heartbeat, oin)
       THEN /\ beatResult' = "skipped"
            /\ pc' = "exec"
            /\ UNCHANGED previous_heartbeat
       ELSE /\ beatResult' = "running"
            /\ pc' = "b_reload"
            /\ previous_heartbeat' = mem.latest_heartbeat
    /\ UNCHANGED <<now, heartrate, db, mem, wakeAt, failures, exc, runResult, endWrites,
                   killVars, extOps, aliveResult, tableVars>>

\* Line 220: if self.state in State.terminating_states, on the reloaded job.
in_terminating_states_OrEnded(job) ==
    job.state \in terminating_states \/ job.end_date # None
in_terminating_states(job) == job.state \in terminating_states

\* First session (lines 215-230): reload self from the row, then either go to
\* kill() or compute sleep_for from the reloaded latest_heartbeat and sleep.
BeatReload ==
    /\ pc = "b_reload"
    /\ mem' = db
    /\ previous_heartbeat' = db.latest_heartbeat
    /\ IF in_terminating_states(db)
       THEN /\ pc' = "b_kill"
            /\ UNCHANGED wakeAt
       ELSE /\ pc' = "b_sleep"
            /\ wakeAt' = now + sleep_for(heartrate, now, db.latest_heartbeat)
    /\ UNCHANGED <<now, heartrate, db, only_if_necessary, beats, beatResult, failedAt,
                   failures, lhbAtCall, failuresAtCall, exc, runResult, endWrites, 
                   killVars, extOps, aliveResult, tableVars>>

\* OperationalError in the first session.
BeatReloadFails ==
    /\ pc = "b_reload"
    /\ HeartbeatFailure("reload", mem)
    /\ UNCHANGED <<now, heartrate, db, only_if_necessary, beats,
                   lhbAtCall, failuresAtCall, exc, runResult, endWrites, 
                   killVars, extOps, aliveResult, tableVars>>

\* sleep(sleep_for) returns (line 230).
BeatWake ==
    /\ pc = "b_sleep"
    /\ now >= wakeAt
    /\ wakeAt' = 0
    /\ pc' = "b_commit"
    /\ UNCHANGED <<now, heartrate, db, mem, only_if_necessary, previous_heartbeat,
                   beats, beatResult, failedAt, failures, lhbAtCall, failuresAtCall, exc,
                   runResult, endWrites, killVars, extOps, aliveResult, tableVars>>

\* The row after the second session's merge(self) and commit (lines 233-237).
RowAfterHeartbeat_Unstamped(m, t) ==
    [state |-> m.state, end_date |-> m.end_date, latest_heartbeat |-> m.latest_heartbeat]
RowAfterHeartbeat(m, t) ==
    [state |-> m.state, end_date |-> m.end_date, latest_heartbeat |-> t]

\* Line 239, after the commit: previous_heartbeat = self.latest_heartbeat.
previous_after_commit_Stale(prev, lhb) == prev
previous_after_commit(prev, lhb) == lhb

\* Second session (lines 233-239): merge, latest_heartbeat = utcnow(), commit,
\* previous_heartbeat = latest_heartbeat.
BeatCommit ==
    /\ pc = "b_commit"
    /\ mem' = [mem EXCEPT !.latest_heartbeat = now]
    /\ db' = RowAfterHeartbeat(mem, now)
    /\ endWrites' = endWrites + (IF db'.end_date # db.end_date THEN 1 ELSE 0)
    /\ previous_heartbeat' = previous_after_commit(previous_heartbeat, now)
    /\ pc' = "b_hook"
    /\ UNCHANGED <<now, heartrate, only_if_necessary, wakeAt, beats, beatResult, failedAt,
                   failures, lhbAtCall, failuresAtCall, exc, runResult, 
                   killVars, extOps, aliveResult, tableVars>>

\* OperationalError in the second session: from merge (line 235), before
\* latest_heartbeat is assigned, or from commit (line 237), after it. Nothing is stored.
BeatCommitFails(at) ==
    /\ pc = "b_commit"
    /\ HeartbeatFailure(at, IF at = "commit"
                            THEN [mem EXCEPT !.latest_heartbeat = now]
                            ELSE mem)
    /\ UNCHANGED <<now, heartrate, db, only_if_necessary, beats,
                   lhbAtCall, failuresAtCall, exc, runResult, endWrites, 
                   killVars, extOps, aliveResult, tableVars>>

\* heartbeat_callback(session) returns (lines 241-242); heartbeat() returns.
BeatHook ==
    /\ pc = "b_hook"
    /\ beatResult' = "ok"
    /\ previous_heartbeat' = None
    /\ pc' = "exec"
    /\ UNCHANGED <<now, heartrate, db, mem, only_if_necessary, wakeAt,
                   beats, failedAt, failures, lhbAtCall, failuresAtCall, exc,
                   runResult, endWrites, killVars, extOps, aliveResult, tableVars>>

\* heartbeat_callback(session) raises OperationalError after the commit.
BeatHookFails ==
    /\ pc = "b_hook"
    /\ HeartbeatFailure("hook", mem)
    /\ UNCHANGED <<now, heartrate, db, only_if_necessary, beats,
                   lhbAtCall, failuresAtCall, exc, runResult, endWrites, 
                   killVars, extOps, aliveResult, tableVars>>

\* ------------------------------------------------------------------ kill()
\* kill() is run by the owner from heartbeat() (line 221) or by the external
\* process; c names the caller.
KillCallable(c) ==
    /\ kpc[c] = "idle"
    /\ db # NoRow
    /\ IF c = "owner" THEN pc = "b_kill" ELSE extOps < MaxExt

\* What an exception leaving kill() does in the owner: OperationalError is caught
\* by heartbeat()'s handler (line 243); AirflowException leaves heartbeat() and
\* _execute() and reaches run()'s "except Exception" (lines 267-269).
OwnerAfterKill(e) ==
    IF e = "OperationalError"
    THEN /\ HeartbeatFailure("kill", mem)
         /\ UNCHANGED <<only_if_necessary, beats, lhbAtCall, failuresAtCall, exc, runResult>>
    ELSE /\ beatResult' = "raised"
         /\ exc' = e
         /\ mem' = [mem EXCEPT !.state = StateAfterExecute(e, mem.state)]
         /\ previous_heartbeat' = None
         /\ pc' = "finalize"
         /\ UNCHANGED <<only_if_necessary, wakeAt, beats, failedAt, failures, lhbAtCall,
                        failuresAtCall, runResult>>

\* An exception e leaves kill() called by c.
KillRaises(c, e) ==
    /\ kout' = [kout EXCEPT ![c] = e]
    /\ kjobEnd' = [kjobEnd EXCEPT ![c] = None]
    /\ kpc' = [kpc EXCEPT ![c] = "idle"]
    /\ IF c = "owner" THEN OwnerAfterKill(e) ELSE UNCHANGED ownerVars

\* Lines 166-167: load the row by id; job.end_date = utcnow() on the session's object.
KillLoad(c) ==
    /\ KillCallable(c)
    /\ kjobEnd' = [kjobEnd EXCEPT ![c] = now]
    /\ kpc' = [kpc EXCEPT ![c] = "hook"]
    /\ khook' = [khook EXCEPT ![c] = "none"]
    /\ kout' = [kout EXCEPT ![c] = "none"]
    /\ extOps' = IF c = "ext" THEN extOps + 1 ELSE extOps
    /\ UNCHANGED <<now, heartrate, db, ownerVars, endWrites, aliveResult, tableVars>>

\* OperationalError from the query of line 166.
KillLoadFails(c) ==
    /\ KillCallable(c)
    /\ KillRaises(c, "OperationalError")
    /\ khook' = [khook EXCEPT ![c] = "none"]
    /\ extOps' = IF c = "ext" THEN extOps + 1 ELSE extOps
    /\ UNCHANGED <<now, heartrate, db, endWrites, aliveResult, tableVars>>

\* Lines 168-171: where kill() continues after on_kill() returned ("ok") or raised
\* an Exception ("raised"): the except clause logs it and kill() goes on to merge.
AfterOnKill_Propagate(r) == IF r = "raised" THEN "idle" ELSE "commit"
AfterOnKill(r) == "commit"

\* Lines 168-171: on_kill() returns, or raises an Exception that is logged.
KillHook(c, r) ==
    /\ kpc[c] = "hook"
    /\ khook' = [khook EXCEPT ![c] = r]
    /\ kpc' = [kpc EXCEPT ![c] = AfterOnKill(r)]
    /\ UNCHANGED <<now, heartrate, db, ownerVars, endWrites, kjobEnd, kout, extOps,
                   aliveResult, tableVars>>

\* The row after kill()'s commit: only end_date was changed on the loaded object.
RowAfterKill_Stops(row, end) == [row EXCEPT !.end_date = end, !.state = SHUTDOWN]
RowAfterKill(row, end) == [row EXCEPT !.end_date = end]

\* Lines 172-174: merge(job); commit; raise AirflowException.
KillCommit(c) ==
    /\ kpc[c] = "commit"
    /\ db' = RowAfterKill(db, kjobEnd[c])
    /\ endWrites' = endWrites + 1
    /\ KillRaises(c, "AirflowException")
    /\ UNCHANGED <<now, heartrate, khook, extOps, aliveResult, tableVars>>

\* OperationalError from the commit of line 173: nothing is stored.
KillCommitFails(c) ==
    /\ kpc[c] = "commit"
    /\ KillRaises(c, "OperationalError")
    /\ UNCHANGED <<now, heartrate, db, endWrites, khook, extOps, aliveResult, tableVars>>

\* ------------------------------------------------------------ environment
\* Another process asks a running job to stop by storing a terminating state.
ExternalFlip(s) ==
    /\ db # NoRow
    /\ db.state = RUNNING
    /\ extOps < MaxExt
    /\ extOps' = extOps + 1
    /\ db' = [db EXCEPT !.state = s]
    /\ UNCHANGED <<now, heartrate, ownerVars, endWrites, killVars, aliveResult, tableVars>>

\* ------------------------------------------------------------- is_alive()
JobStates == {UNSET, RUNNING, SUCCESS, FAILED, SHUTDOWN, RESTARTING}

\* A job object as an observer holds it (loaded from any row), at any time of the clock.
InitAlive ==
    /\ now \in 0..MaxTime
    /\ heartrate \in 1..MaxHeartRate
    /\ mem \in [state : JobStates, end_date : {None, 0}, latest_heartbeat : 0..MaxTime]
    /\ db = mem
    /\ pc = "observer"
    /\ only_if_necessary = FALSE
    /\ previous_heartbeat = None
    /\ wakeAt = 0
    /\ beats = 0
    /\ beatResult = "none"
    /\ failedAt = "none"
    /\ failures = 0
    /\ lhbAtCall = None
    /\ failuresAtCall = 0
    /\ exc = "none"
    /\ runResult = "none"
    /\ endWrites = 0
    /\ kpc = [c \in Callers |-> "idle"]
    /\ kjobEnd = [c \in Callers |-> None]
    /\ khook = [c \in Callers |-> "none"]
    /\ kout = [c \in Callers |-> "none"]
    /\ extOps = 0
    /\ aliveResult = [called |-> FALSE, grace |-> DefaultGrace, result |-> FALSE]
    /\ NoTable

\* The observer evaluates self.is_alive(grace_multiplier=g) (lines 147-161).
IsAliveCall(g) ==
    /\ pc = "observer"
    /\ aliveResult' = [called |-> TRUE, grace |-> g,
                       result |-> is_alive(mem, heartrate, now, g)]
    /\ UNCHANGED <<now, heartrate, db, ownerVars, endWrites, killVars, extOps, tableVars>>

NextAlive == \E g \in Graces : IsAliveCall(g)

SpecAlive == InitAlive /\ [][NextAlive]_vars

\* The job's own locals at rest: nothing of run(), heartbeat() or kill() is in progress
\* in the process whose position is p.
AtRest(p) ==
    /\ pc = p
    /\ only_if_necessary = FALSE
    /\ previous_heartbeat = None
    /\ wakeAt = 0
    /\ beats = 0
    /\ beatResult = "none"
    /\ failedAt = "none"
    /\ failures = 0
    /\ lhbAtCall = None
    /\ failuresAtCall = 0
    /\ exc = "none"
    /\ runResult = "none"
    /\ endWrites = 0
    /\ kpc = [c \in Callers |-> "idle"]
    /\ kjobEnd = [c \in Callers |-> None]
    /\ khook = [c \in Callers |-> "none"]
    /\ kout = [c \in Callers |-> "none"]
    /\ extOps = 0

\* ------------------------------------------- is_alive() as the clock advances
\* An observer holds a RUNNING job whose heartrate is 60 seconds and whose last
\* heartbeat is at latest_heartbeat; the clock then advances second by second and
\* the observer evaluates is_alive() (lines 147-161) at any of these instants.
InitElapsed ==
    /\ heartrate = 60
    /\ mem \in [state : {RUNNING}, end_date : {None}, latest_heartbeat : 0..MaxTime]
    /\ db = mem
    /\ now = mem.latest_heartbeat
    /\ AtRest("observer")
    /\ aliveResult = [called |-> FALSE, grace |-> DefaultGrace, result |-> FALSE]
    /\ NoTable

\* One second passes; the result of an earlier evaluation is of an earlier instant.
Elapse ==
    /\ now - mem.latest_heartbeat < MaxElapsed
    /\ now' = now + 1
    /\ aliveResult' = [called |-> FALSE, grace |-> DefaultGrace, result |-> FALSE]
    /\ UNCHANGED <<heartrate, db, ownerVars, endWrites, killVars, extOps, tableVars>>

NextElapsed ==
    \/ Elapse
    \/ \E g \in Graces : IsAliveCall(g)

SpecElapsed == InitElapsed /\ [][NextElapsed]_vars

\* ------------------------------------------------------- most_recent_job()
\* The polymorphic identities (job_type, lines 65 and 75) of two subclasses.
JobTypes == {"SchedulerJob", "LocalTaskJob"}

\* The states of the rows of the table: the ordering tells RUNNING from the rest,
\* for which FAILED stands.
TableStates == {RUNNING, FAILED}

\* A row of the table: its columns job_type, state and latest_heartbeat (lines 65-69),
\* and the heartrate its owner was constructed with (lines 112-113), which is an
\* attribute of the owner's instance and not a column.
TableRows ==
    [job_type : JobTypes, state : TableStates,
     latest_heartbeat : 0..MaxStamp, heartrate : 1..MaxHeartRate]

\* session.query(cls): the ids of the rows whose job_type is that of the class.
query(tbl, cls) == {i \in DOMAIN tbl : tbl[i].job_type = cls}

\* case({State.RUNNING: 0}, value=cls.state, else_=1) (lines 139-142).
case_order_Flat(st) == 0
case_order(st) == IF st = RUNNING THEN 0 ELSE 1

\* order_by(<the case>, cls.latest_heartbeat.desc()) (lines 138-144): a sorts
\* strictly before b.
order_by(a, b) ==
    \/ case_order(a.state) < case_order(b.state)
    \/ /\ case_order(a.state) = case_order(b.state)
       /\ a.latest_heartbeat > b.latest_heartbeat

\* most_recent_job (lines 123-145): .limit(1).first() returns the first row of the
\* ordered query, or None (here the empty set) when the query has no row.  Rows
\* that tie in the ordering may come in either order: every one of them can be
\* the result.
most_recent_job(tbl, cls) ==
    {i \in query(tbl, cls) : \A j \in query(tbl, cls) : ~order_by(tbl[j], tbl[i])}

\* The heartrate of an instance that the query loaded: heartrate is a class
\* attribute read from the configuration (line 101) and not a column (lines 64-73),
\* and __init__ (lines 112-113) does not run on load, so it is the heartrate of the
\* observer's class and not the one the owner of the row was constructed with.
loaded_heartrate_OfOwner(row, cls_hr) == row.heartrate
loaded_heartrate(row, cls_hr) == cls_hr

\* An observer at some instant not before the heartbeats of the rows, with the
\* heartrate of its classes, before a table of up to MaxJobs rows in every
\* combination of types, states, heartbeats and owners' heartrates.
InitTable ==
    /\ now \in MaxStamp..MaxTime
    /\ heartrate \in 1..MaxHeartRate
    /\ \E n \in 0..MaxJobs : table \in [1..n -> TableRows]
    /\ mrType = "none"
    /\ mrResult = 0
    /\ ipc = <<>>
    /\ db = NoRow
    /\ mem = [state |-> UNSET, end_date |-> None, latest_heartbeat |-> 0]
    /\ AtRest("query")
    /\ aliveResult = [called |-> FALSE, grace |-> DefaultGrace, result |-> FALSE]

\* job = cls.most_recent_job() (lines 123-145); mrResult 0 stands for None.
MostRecentJob(cls) ==
    /\ pc = "query"
    /\ mrType' = cls
    /\ \/ /\ most_recent_job(table, cls) = {}
          /\ mrResult' = 0
       \/ \E i \in most_recent_job(table, cls) : mrResult' = i
    /\ aliveResult' = [called |-> FALSE, grace |-> DefaultGrace, result |-> FALSE]
    /\ UNCHANGED <<now, heartrate, db, ownerVars, endWrites, killVars, extOps,
                   table, ipc>>

\* job.is_alive(grace_multiplier=g) on the instance the query returned
\* (lines 147-161).
IsAliveOfResult(g) ==
    /\ pc = "query"
    /\ mrResult # 0
    /\ aliveResult' =
         [called |-> TRUE, grace |-> g,
          result |-> is_alive(table[mrResult],
                              loaded_heartrate(table[mrResult], heartrate), now, g)]
    /\ UNCHANGED <<now, heartrate, db, ownerVars, endWrites, killVars, extOps,
                   tableVars>>

NextTable ==
    \/ \E cls \in JobTypes : MostRecentJob(cls)
    \/ \E g \in Graces : IsAliveOfResult(g)

SpecTable == InitTable /\ [][NextTable]_vars

\* ------------------------------------- instances of one type that check, then run
\* MaxJobs processes each construct a job of the same class, ask whether a job of
\* the class is alive, and call run() only when none is.
Insts == 1..MaxJobs
PairType == "SchedulerJob"

InitPair ==
    /\ now = 0
    /\ heartrate \in 1..MaxHeartRate
    /\ table = <<>>
    /\ mrType = "none"
    /\ mrResult = 0
    /\ ipc = [i \in Insts |-> [pc |-> "new", latest_heartbeat |-> None, row |-> 0]]
    /\ db = NoRow
    /\ mem = [state |-> UNSET, end_date |-> None, latest_heartbeat |-> 0]
    /\ AtRest("pair")
    /\ aliveResult = [called |-> FALSE, grace |-> DefaultGrace, result |-> FALSE]

\* __init__ (lines 103-117): self.latest_heartbeat = timezone.utcnow().
Construct(i) ==
    /\ ipc[i].pc = "new"
    /\ ipc' = [ipc EXCEPT ![i] = [pc |-> "check", latest_heartbeat |-> now, row |-> 0]]
    /\ UNCHANGED <<now, heartrate, db, ownerVars, endWrites, killVars, extOps,
                   aliveResult, table, mrType, mrResult>>

\* The caller's check: job = cls.most_recent_job(); run only when job is None or
\* not job.is_alive() (lines 123-145 and 147-161).
CheckAlive(i) ==
    /\ ipc[i].pc = "check"
    /\ mrType' = PairType
    /\ \/ /\ most_recent_job(table, PairType) = {}
          /\ mrResult' = 0
          /\ aliveResult' = [called |-> FALSE, grace |-> DefaultGrace, result |-> FALSE]
          /\ ipc' = [ipc EXCEPT ![i].pc = "go"]
       \/ \E r \in most_recent_job(table, PairType) :
            LET alive == is_alive(table[r], loaded_heartrate(table[r], heartrate),
                                  now, DefaultGrace)
            IN  /\ mrResult' = r
                /\ aliveResult' = [called |-> TRUE, grace |-> DefaultGrace,
                                   result |-> alive]
                /\ ipc' = [ipc EXCEPT ![i].pc = IF alive THEN "skip" ELSE "go"]
    /\ UNCHANGED <<now, heartrate, db, ownerVars, endWrites, killVars, extOps, table>>

\* run(), lines 254-258: state = RUNNING; session.add(self); session.commit().
RunInsert(i) ==
    /\ ipc[i].pc = "go"
    /\ table' = Append(table, [job_type |-> PairType, state |-> RUNNING,
                               latest_heartbeat |-> ipc[i].latest_heartbeat,
                               heartrate |-> heartrate])
    /\ ipc' = [ipc EXCEPT ![i].pc = "running", ![i].row = Len(table) + 1]
    /\ UNCHANGED <<now, heartrate, db, ownerVars, endWrites, killVars, extOps,
                   aliveResult, mrType, mrResult>>

\* run(), lines 260-274, when _execute() returns: the final state is committed.
RunReturn(i) ==
    /\ ipc[i].pc = "running"
    /\ table' = [table EXCEPT
                    ![ipc[i].row].state = StateAfterExecute("return", RUNNING)]
    /\ ipc' = [ipc EXCEPT ![i].pc = "done"]
    /\ UNCHANGED <<now, heartrate, db, ownerVars, endWrites, killVars, extOps,
                   aliveResult, mrType, mrResult>>

NextPair ==
    \/ Tick
    \/ \E i \in Insts : Construct(i)
    \/ \E i \in Insts : CheckAlive(i)
    \/ \E i \in Insts : RunInsert(i)
    \/ \E i \in Insts : RunReturn(i)

SpecPair == InitPair /\ [][NextPair]_vars


\* ------------------------------------------------------------------- Next
Next ==
    \/ Tick
    \/ RunStart
    \/ \E e \in ExecOutcomes : ExecEnd(e)
    \/ Finalize
    \/ RunExit
    \/ \E oin \in BOOLEAN : BeatCall(oin)
    \/ BeatReload
    \/ BeatReloadFails
    \/ BeatWake
    \/ BeatCommit
    \/ \E at \in {"merge", "commit"} : BeatCommitFails(at)
    \/ BeatHook
    \/ BeatHookFails
    \/ \E c \in Callers : KillLoad(c)
    \/ \E c \in Callers : KillLoadFails(c)
    \/ \E c \in Callers, r \in {"ok", "raised"} : KillHook(c, r)
    \/ \E c \in Callers : KillCommit(c)
    \/ \E c \in Callers : KillCommitFails(c)
    \/ \E s \in terminating_states : ExternalFlip(s)

Spec == Init /\ [][Next]_vars

\* ------------------------------------------- a job whose _execute() never ends
\* _execute() calls heartbeat(only_if_necessary=oin) again and again (lines
\* 205-212): BeatCall without the limit on the number of calls, which are counted
\* up to MaxBeats only.
BeatCallAgain(oin) ==
    /\ pc = "exec"
    /\ beats' = IF beats < MaxBeats THEN beats + 1 ELSE beats
    /\ only_if_necessary' = oin
    /\ lhbAtCall' = mem.latest_heartbeat
    /\ failuresAtCall' = failures
    /\ failedAt' = "none"
    /\ IF heartbeat_skips(heartrate, now, mem.latest_heartbeat, oin)
       THEN /\ beatResult' = "skipped"
            /\ pc' = "exec"
            /\ UNCHANGED previous_heartbeat
       ELSE /\ beatResult' = "running"
            /\ pc' = "b_reload"
            /\ previous_heartbeat' = mem.latest_heartbeat
    /\ UNCHANGED <<now, heartrate, db, mem, wakeAt, failures, exc, runResult, endWrites,
                   killVars, extOps, aliveResult, tableVars>>

\* sleep(sleep_for) returns (line 230) at an instant after MaxTime, the last one
\* the clock tells apart: every later instant reads MaxTime.
BeatWakeLate ==
    /\ pc = "b_sleep"
    /\ now = MaxTime
    /\ wakeAt > now
    /\ wakeAt' = 0
    /\ pc' = "b_commit"
    /\ UNCHANGED <<now, heartrate, db, mem, only_if_necessary, previous_heartbeat,
                   beats, beatResult, failedAt, failures, lhbAtCall, failuresAtCall, exc,
                   runResult, endWrites, killVars, extOps, aliveResult, tableVars>>

\* The storage accesses of heartbeat() and of the kill() it calls can still fail:
\* at most MaxBeats failures are followed, after which every access succeeds.
MayFail == failures < MaxBeats

\* The job runs, _execute() only ever leaves through an exception of heartbeat(),
\* storage may fail at any access, and another process may store a terminating
\* state.
NextLive ==
    \/ Tick
    \/ RunStart
    \/ Finalize
    \/ RunExit
    \/ \E oin \in BOOLEAN : BeatCallAgain(oin)
    \/ BeatReload
    \/ MayFail /\ BeatReloadFails
    \/ BeatWake
    \/ BeatWakeLate
    \/ BeatCommit
    \/ \E at \in {"merge", "commit"} : MayFail /\ BeatCommitFails(at)
    \/ BeatHook
    \/ MayFail /\ BeatHookFails
    \/ KillLoad("owner")
    \/ MayFail /\ KillLoadFails("owner")
    \/ \E r \in {"ok", "raised"} : KillHook("owner", r)
    \/ KillCommit("owner")
    \/ MayFail /\ KillCommitFails("owner")
    \/ \E s \in terminating_states : ExternalFlip(s)

\* The clock advances; _execute() keeps calling heartbeat(); every step of
\* heartbeat(), kill() and run() that is ready is eventually taken; and a storage
\* access that is tried again and again eventually succeeds (strong fairness).
LiveFairness ==
    /\ WF_vars(Tick)
    /\ WF_vars(RunStart)
    /\ WF_vars(Finalize)
    /\ WF_vars(RunExit)
    /\ SF_vars(BeatCallAgain(FALSE))
    /\ SF_vars(BeatReload)
    /\ WF_vars(BeatWake)
    /\ WF_vars(BeatWakeLate)
    /\ SF_vars(BeatCommit)
    /\ WF_vars(BeatHook)
    /\ SF_vars(KillLoad("owner"))
    /\ WF_vars(\E r \in {"ok", "raised"} : KillHook("owner", r))
    /\ SF_vars(KillCommit("owner"))

SpecLive == Init /\ [][NextLive]_vars /\ LiveFairness

\* ================================================================= claims

RunEnded == pc \in {"exit", "done"}
BeatPcs == {"b_reload", "b_kill", "b_sleep", "b_commit", "b_hook"}

\* C1: after run() ends by any exit path (return, SystemExit, Exception, another
\* BaseException such as KeyboardInterrupt), the stored state is SUCCESS or FAILED
\* and the stored end_date is non-null.
C1_RunEndsTerminal ==
    RunEnded => (db.state \in {SUCCESS, FAILED} /\ db.end_date # None)

\* C2: over any interleaving of run(), heartbeat() and kill() on one row, the
\* stored end_date is written at most once.
C2_EndDateWrittenOnce == endWrites <= 1

\* C3: once a terminal state is stored, no later step changes the stored state.
C3_StateMonotone ==
    [][db.state \in TerminalStates => db'.state = db.state]_vars

\* C4: once heartbeat() has reloaded a terminating state and turned to kill(), it
\* never returns normally to _execute(): the only way on is the termination
\* signal reaching run(), also when kill() hits OperationalError.
C4_KillNeverReturns ==
    [][pc = "b_kill" => pc' \in {"b_kill", "finalize"}]_vars

\* C5 (as claimed): a heartbeat() call that met a transient storage failure at any
\* point (reload, kill, merge/commit, hook after the commit) leaves the in-memory
\* latest_heartbeat at its value before the call.
C5_NoAdvanceOnAnyFailure ==
    beatResult = "absorbed" => mem.latest_heartbeat = lhbAtCall

\* C5 (amended): a failure at the reload, in kill() or at the merge/commit of the
\* second session leaves the in-memory latest_heartbeat at its value before the
\* call; a failure of the heartbeat hook after the commit leaves it at the value
\* that call committed, which is the stored one.
C5_NoAdvanceUnlessCommitted ==
    beatResult = "absorbed" =>
        IF failedAt = "hook"
        THEN mem.latest_heartbeat = db.latest_heartbeat
        ELSE mem.latest_heartbeat = lhbAtCall

\* C5 witness: a commit failed after time had passed, and the value was put back.
C5_Witness ==
    /\ beatResult = "absorbed"
    /\ failedAt = "commit"
    /\ now > lhbAtCall
    /\ mem.latest_heartbeat = lhbAtCall

\* C6: a transient storage failure during heartbeat() is absorbed (the call
\* returns normally) and the failure counter grows by exactly 1 for that call,
\* and by 0 for a call without a storage failure.
C6_FailureAbsorbed ==
    /\ failedAt # "none" => (beatResult = "absorbed" /\ pc \notin BeatPcs)
    /\ beatResult = "absorbed" => (failedAt # "none" /\ failures = failuresAtCall + 1)
    /\ beatResult \in {"ok", "skipped", "raised", "running"} => failures = failuresAtCall

\* C6 witness: the second of two calls failed, after the first had failed too.
C6_Witness ==
    /\ beatResult = "absorbed"
    /\ pc = "exec"
    /\ failuresAtCall = 1
    /\ failures = 2

C8_EndDateStoredBeforeHook ==
    \A c \in Callers : kpc[c] \in {"hook", "commit"} => db.end_date # None

\* C9: heartbeat(only_if_necessary=True) called less than heartrate seconds after
\* the in-memory latest_heartbeat returns at once: no storage access, no sleep,
\* no hook, no kill(), nothing changed in memory or in storage.
C9_SkipIsNoOp ==
    [][(/\ pc = "exec"
        /\ beats' = beats + 1
        /\ only_if_necessary'
        /\ now - mem.latest_heartbeat < heartrate)
       => (/\ pc' = "exec"
           /\ beatResult' = "skipped"
           /\ UNCHANGED <<db, mem, previous_heartbeat, wakeAt, failures, endWrites,
                          killVars>>)]_vars

\* C9 witness: a call was skipped after an earlier heartbeat had been committed.
C9_Witness ==
    /\ beatResult = "skipped"
    /\ only_if_necessary
    /\ beats = 2
    /\ db.latest_heartbeat > 0
    /\ now - mem.latest_heartbeat < heartrate

\* C10: is_alive(grace) is true iff state = RUNNING and
\* now - latest_heartbeat < heartrate * grace (strictly), false for every other
\* state, and evaluating it changes nothing.
C10_IsAliveIff ==
    /\ [](aliveResult.called =>
            (aliveResult.result <=>
                (/\ mem.state = RUNNING
                 /\ 10 * (now - mem.latest_heartbeat) < heartrate * aliveResult.grace)))
    /\ [](aliveResult.called /\ mem.state # RUNNING => ~aliveResult.result)
    /\ [][UNCHANGED <<now, heartrate, db, mem>>]_vars

\* C10 witness: a RUNNING job exactly at the boundary elapsed = heartrate * grace
\* is reported not alive.
C10_Witness ==
    /\ aliveResult.called
    /\ mem.state = RUNNING
    /\ 10 * (now - mem.latest_heartbeat) = heartrate * aliveResult.grace
    /\ ~aliveResult.result

\* -------------------------------------------------------------------- C11
\* The seconds since the last heartbeat at the instant is_alive() was evaluated.
Elapsed == now - mem.latest_heartbeat

\* C11 (as stated): with heartrate 60 and the default multiplier 2.1, is_alive() is
\* false 125 seconds after the last heartbeat and true 65 seconds after it.
C11_DeadAt125 ==
    (aliveResult.called /\ aliveResult.grace = DefaultGrace)
        => /\ (Elapsed = 125 => ~aliveResult.result)
           /\ (Elapsed = 65 => aliveResult.result)

\* C11 (amended): the window is 60 * 2.1 = 126 seconds, so is_alive() is true at
\* 65 and still true at 125 seconds after the last heartbeat, and false from 126
\* seconds on.
C11_AliveUntil126 ==
    (aliveResult.called /\ aliveResult.grace = DefaultGrace)
        => /\ (Elapsed = 65 => aliveResult.result)
           /\ (Elapsed = 125 => aliveResult.result)
           /\ (Elapsed >= 126 => ~aliveResult.result)
           /\ (Elapsed < 126 => aliveResult.result)

C11_Witness ==
    /\ aliveResult.called /\ aliveResult.grace = DefaultGrace
    /\ heartrate = 60 /\ mem.state = RUNNING
    /\ Elapsed = 125 /\ aliveResult.result

\* -------------------------------------------------------------------- C12
\* The rows of the class most_recent_job() was last called on.
OfType == {i \in DOMAIN table : table[i].job_type = mrType}
RunningOfType == {i \in OfType : table[i].state = RUNNING}

\* C12: most_recent_job() returns None exactly when the table has no row of the
\* type; otherwise it returns a row of the type: when a RUNNING row exists, a
\* RUNNING row whose latest_heartbeat no RUNNING row exceeds (whatever the
\* heartbeats of the other rows), and else a row whose latest_heartbeat no row
\* of the type exceeds.
C12_RunningFirstThenNewest ==
    mrType # "none" =>
        /\ (mrResult = 0) <=> (OfType = {})
        /\ mrResult # 0 =>
              /\ mrResult \in OfType
              /\ RunningOfType # {} =>
                    /\ mrResult \in RunningOfType
                    /\ \A j \in RunningOfType :
                         table[j].latest_heartbeat <= table[mrResult].latest_heartbeat
              /\ RunningOfType = {} =>
                    \A j \in OfType :
                         table[j].latest_heartbeat <= table[mrResult].latest_heartbeat

\* The scenario: a RUNNING row is returned although a FAILED row of the same type
\* has a newer heartbeat.
C12_Witness ==
    /\ mrType # "none" /\ mrResult # 0
    /\ table[mrResult].state = RUNNING
    /\ \E j \in OfType :
         /\ table[j].state = FAILED
         /\ table[j].latest_heartbeat > table[mrResult].latest_heartbeat

\* -------------------------------------------------------------------- C13
\* is_alive() of row i as an observer that loads it evaluates it.
AliveRow(i, g) ==
    is_alive(table[i], loaded_heartrate(table[i], heartrate), now, g)

\* C13: when some row of the type is alive, the row most_recent_job() returned is
\* alive, whatever the states, heartbeats and owners' heartrates of the rows.
C13_FindsAliveFirst ==
    /\ (mrType # "none" /\ \E i \in OfType, g \in Graces : AliveRow(i, g))
          => mrResult # 0
    /\ aliveResult.called =>
          ((\E i \in OfType : AliveRow(i, aliveResult.grace)) => aliveResult.result)

\* The returned row is alive while a row of the type that is not RUNNING has a
\* newer heartbeat, and the owners of the two rows have different heartrates.
C13_Witness ==
    /\ aliveResult.called /\ aliveResult.result
    /\ \E j \in OfType :
         /\ table[j].state # RUNNING
         /\ table[j].latest_heartbeat > table[mrResult].latest_heartbeat
         /\ table[j].heartrate # table[mrResult].heartrate

\* -------------------------------------------------------------------- C14
\* C14: when every instance of a type checks most_recent_job()/is_alive() and
\* calls run() only if no job of the type is alive, no two rows of the type are
\* alive at once.
C14_NoTwoAlive ==
    \A i, j \in DOMAIN table :
        (i # j /\ table[i].job_type = table[j].job_type)
            => ~(AliveRow(i, DefaultGrace) /\ AliveRow(j, DefaultGrace))

\* -------------------------------------------------------------------- C15
\* Another process has stored a terminating state on the row of a job whose
\* run() is in _execute().
StopRequested == db.state \in terminating_states /\ pc \in {"exec"} \cup BeatPcs

\* heartbeat() has raised kill()'s exception and run() has committed the final
\* record.
StopTookEffect ==
    /\ beatResult = "raised"
    /\ RunEnded
    /\ db.end_date # None
    /\ db.state \in TerminalStates

\* C15: once another process has stored a terminating state on a running job
\* that keeps calling heartbeat(), heartbeat() eventually raises and run()
\* finalizes the record.
C15_CancellationTakesEffect == StopRequested ~> StopTookEffect

\* The same for a terminating state that is stored while no heartbeat() of the
\* owner is between its reload and its commit.
C15_SeenWhenNotOverwritten ==
    (StopRequested /\ pc \notin {"b_sleep", "b_commit"}) ~> StopTookEffect

\* -------------------------------------------------------------------- C16
\* _execute() ended by raising an Exception: its own, or the AirflowException
\* of kill() that heartbeat() let through.
ExecuteRaisedException == exc \in {"Exception", "AirflowException"}

C17_SystemExitIsSuccess ==
    exc = "SystemExit" =>
        /\ RunEnded => (db.state = SUCCESS /\ db.end_date # None)
        /\ pc = "done" => runResult = "returned"
        /\ runResult # "none" => pc = "done"

C17_Witness ==
    /\ exc = "SystemExit"
    /\ pc = "done" /\ runResult = "returned"
    /\ db.state = SUCCESS /\ db.end_date # None

C19_HeartbeatsPaced ==
    [][/\ (pc = "b_reload" /\ pc' = "b_sleep") =>
             /\ wakeAt' >= now
             /\ wakeAt' >= mem'.latest_heartbeat + heartrate
       /\ (pc = "b_sleep" /\ pc' = "b_commit") => now >= wakeAt
       /\ (pc = "b_commit" /\ pc' = "b_hook") =>
             /\ db'.latest_heartbeat = now
             /\ db'.latest_heartbeat >= mem.latest_heartbeat + heartrate
       /\ (db # NoRow /\ db'.latest_heartbeat # db.latest_heartbeat) =>
             db'.latest_heartbeat >= db.latest_heartbeat + heartrate]_vars

\* Two heartbeat() calls in a row have each stored a heartbeat.
C19_Witness ==
    /\ beats = MaxBeats /\ pc = "exec" /\ beatResult = "ok"
    /\ failures = 0
    /\ lhbAtCall > 0
    /\ db.latest_heartbeat >= lhbAtCall + heartrate

\* -------------------------------------------------------------------- C20
\* The stored heartbeat is older than the window of heartrate * g (g in tenths).
Stale(g) == 10 * (now - db.latest_heartbeat) >= heartrate * g

\* run() is in an _execute() that has not called heartbeat().
NeverBeat == pc = "exec" /\ beats = 0

\* C20: while run() is in an _execute() that never calls heartbeat(), the owner
\* stores nothing (the state stays RUNNING unless another process changes it,
\* and the heartbeat stays the first one), nothing of the protocol takes the
\* owner out of _execute() whatever another process stores, and once the stored
\* heartbeat is stale is_alive() is false for every observer and remains false.
C20_SilentJobGoesStale ==
    [][/\ NeverBeat =>
            /\ db.state \in {RUNNING} \cup terminating_states
            /\ db.state # RUNNING => extOps > 0
            /\ kpc["owner"] = "idle" /\ exc = "none" /\ beatResult = "none"
            /\ beats' = 0 =>
                  /\ pc' # "exec" => (pc' = "finalize" /\ exc' \in ExecOutcomes)
                  /\ db'.latest_heartbeat = db.latest_heartbeat
                  /\ (pc' = "exec" /\ db' # db) =>
                        (kpc'["ext"] # kpc["ext"] \/ extOps' # extOps)
                  /\ (pc' = "exec" /\ db'.state # db.state) => extOps' # extOps
       /\ (db # NoRow /\ beats' = 0) =>
            \A g \in Graces :
                Stale(g) => /\ ~is_alive(db, heartrate, now, g)
                            /\ ~is_alive(db', heartrate, now', g)]_vars

\* Another process has stored a terminating state, the owner is still in
\* _execute() without a heartbeat, and the heartbeat has gone stale.
C20_Witness ==
    /\ NeverBeat
    /\ db.state \in terminating_states
    /\ Stale(DefaultGrace)

\* The same with nothing stored by another process: RUNNING and stale.
C20_WitnessRunning ==
    /\ NeverBeat
    /\ db.state = RUNNING
    /\ Stale(DefaultGrace)
    /\ ~is_alive(db, heartrate, now, DefaultGrace)

\* -------------------------------------------------------------------- C21
\* The positions of run() at which _execute() is running, heartbeat() included.
ExecPcs == {"exec"} \cup BeatPcs

\* C21: before run() the job has no row and is in memory with an unset state, no
\* end_date and the latest_heartbeat of its construction; leaving that position,
\* run() has committed a row with state RUNNING and is in _execute(); and while
\* _execute() is running the row exists.
C21_RowExistsWhileExecuting ==
    [][/\ pc = "init" =>
            /\ db = NoRow
            /\ mem.state = UNSET /\ mem.end_date = None
            /\ mem.latest_heartbeat # None
            /\ pc' # "init" =>
                  /\ pc' = "exec"
                  /\ db' # NoRow /\ db'.state = RUNNING
                  /\ db'.latest_heartbeat = mem.latest_heartbeat
       /\ pc \in ExecPcs => db # NoRow
       /\ pc' \in ExecPcs => db' # NoRow]_vars

\* _execute() has just been entered, later than the construction.
C21_Witness ==
    /\ pc = "exec" /\ beats = 0
    /\ db # NoRow /\ db.state = RUNNING
    /\ now > db.latest_heartbeat
    /\ extOps = 0

\* -------------------------------------------------------------------- C22
\* The last heartbeat() call returned after heartbeat_callback() raised
\* OperationalError.
HookFailed == pc = "exec" /\ beatResult = "absorbed" /\ failedAt = "hook"

\* C22 (as stated): when the heartbeat hook fails, the stored latest_heartbeat
\* is the one of before the call.
C22_HookFailureUndoesHeartbeat ==
    HookFailed => db.latest_heartbeat = lhbAtCall

\* C22 (amended): the heartbeat is committed before the hook is called: while
\* the hook runs, and after it failed, the stored latest_heartbeat is the new
\* one, at least heartrate after the one of before the call, and the in-memory
\* one equals it.
C22_HeartbeatCommittedBeforeHook ==
    (pc = "b_hook" \/ HookFailed) =>
        /\ db.latest_heartbeat >= lhbAtCall + heartrate
        /\ mem.latest_heartbeat = db.latest_heartbeat

C22_Witness ==
    /\ HookFailed
    /\ db.latest_heartbeat > lhbAtCall
    /\ failures = failuresAtCall + 1

\* -------------------------------------------------------------------- C23
\* C23: the commit of heartbeat() changes nothing of the row but
\* latest_heartbeat: the state and end_date that are stored when it commits,
\* whoever wrote them and whenever during the call, are still stored after it.
C23_HeartbeatKeepsOthersWrites ==
    [][(pc = "b_commit" /\ pc' = "b_hook") =>
           /\ db'.state = db.state
           /\ db'.end_date = db.end_date]_vars

\* -------------------------------------------------------------------- C24
\* C24: whenever run() is in _execute() and not inside heartbeat(), that is
\* after the first commit of run() and after every return of heartbeat(), the
\* in-memory latest_heartbeat is the stored one.
C24_MemoryMatchesStored ==
    pc = "exec" => mem.latest_heartbeat = db.latest_heartbeat

\* A heartbeat() call stored a heartbeat and the next one failed at its commit.
C24_Witness ==
    /\ pc = "exec" /\ beats = MaxBeats
    /\ beatResult = "absorbed" /\ failedAt = "commit"
    /\ db.latest_heartbeat > 0
    /\ now > db.latest_heartbeat
    /\ mem.latest_heartbeat = db.latest_heartbeat

\* -------------------------------------------------------------------- C25
\* heartbeat() reloaded a terminating state and the AirflowException of kill()
\* left _execute().
KilledThroughHeartbeat == exc = "AirflowException" /\ beatResult = "raised"

\* C25: when the exception of kill() leaves _execute(), it is what heartbeat()
\* raised, the record run() commits has state FAILED (not the terminating state
\* the other process stored) and an end_date, and run() raises to its caller.
C25_KilledEndsFailed ==
    /\ exc = "AirflowException" => beatResult = "raised"
    /\ KilledThroughHeartbeat =>
          /\ kout["owner"] = "AirflowException"
          /\ pc \in {"finalize", "exit", "done"}
          /\ mem.state = FAILED
          /\ RunEnded => /\ db.state = FAILED
                         /\ db.state \notin terminating_states
                         /\ db.end_date # None
          /\ pc = "done" => runResult = "raised"

C25_Witness ==
    /\ KilledThroughHeartbeat
    /\ pc = "done" /\ runResult = "raised"
    /\ db.state = FAILED
    /\ extOps >= 1

KilledButRunning == db.state = RUNNING /\ db.end_date # None

\* C27: heartbeat() goes to kill() only from a reload that found a terminating
\* state; a reload that finds state RUNNING with an end_date stored goes on to
\* the pacing sleep, and the commit that follows stores a new latest_heartbeat.
C27_TerminationFromStateOnly ==
    [][/\ (pc # "b_kill" /\ pc' = "b_kill") =>
             (pc = "b_reload" /\ db.state \in terminating_states)
       /\ (pc = "b_reload" /\ KilledButRunning /\ pc' # "b_reload") =>
             \/ pc' = "b_sleep" /\ mem'.end_date # None /\ beatResult' = "running"
             \/ pc' = "exec" /\ failedAt' = "reload"
       /\ (pc = "b_commit" /\ pc' = "b_hook" /\ mem.end_date # None) =>
             /\ db'.latest_heartbeat >= mem.latest_heartbeat + heartrate
             /\ exc = "none"]_vars

\* heartbeat() has returned normally after storing a new latest_heartbeat on a
\* job that another process killed before the call.
C27_Witness ==
    /\ pc = "exec" /\ beatResult = "ok"
    /\ KilledButRunning
    /\ kout["ext"] = "AirflowException"
    /\ db.latest_heartbeat > lhbAtCall
    /\ db.latest_heartbeat > db.end_date

====
